---- MODULE Spec2Model ----
(***************************************************************************)
(* Model of src/app.py: the Tawk.to webhook bridge (TawkConfluenceBot and  *)
(* the /tawk-webhook route).                                               *)
(*                                                                         *)
(* A string is a sequence of one-character strings; the literal texts the  *)
(* program formats into its replies are kept as single tokens.             *)
(***************************************************************************)
EXTENDS Integers, Sequences, FiniteSets, TLC

VARIABLES
    pc,            \* position of the operation under way
    cfg,           \* bot configuration after __init__ (gemini_client, tawk_api_key, tawk_property_id)
    html_content,  \* extract_clean_text: the argument
    clean,         \* extract_clean_text(html_content)
    reclean,       \* extract_clean_text(clean)
    responses,     \* search_confluence: what session.get produced for each strategy issued so far
    search_ret,    \* search_confluence: the returned list
    query,         \* generate_response / pipeline: the query text
    results,       \* generate_response / pipeline: confluence_results
    ai,            \* generate_response: outcome of the one generate_content call
    gen_ret,       \* generate_response: the returned text
    posts,         \* send_tawk_message: the requests.post calls made, in order
    send_ret,      \* send_tawk_message: the returned boolean
    body,          \* tawk_webhook: the request body
    calls,         \* tawk_webhook: the bot methods called, in order
    http           \* tawk_webhook: the HTTP status answered (0: none yet)

vars == << pc, cfg, html_content, clean, reclean, responses, search_ret, query,
           results, ai, gen_ret, posts, send_ret, body, calls, http >>

-----------------------------------------------------------------------------
(* Bounds of the model *)

\* html inputs are concatenations of at most MaxFrags fragments
MaxFrags == 4
\* document identifiers are 1..MaxId (0 stands for a hit without content.id)
MaxId == 4
\* at most MaxTotalHits raw hits over the three queries of one search
MaxTotalHits == 4
\* a transcript carries at most MaxMsgs messages
MaxMsgs == 2

-----------------------------------------------------------------------------
(* Strings *)

Min(S) == CHOOSE x \in S : \A y \in S : x <= y

\* the characters \s matches and str.strip removes
IsSpace(c) == c \in {" ", "\n", "\t"}

RECURSIVE Concat(_)
Concat(ss) == IF ss = <<>> THEN <<>> ELSE Head(ss) \o Concat(Tail(ss))

StartsWith(s, p) == Len(s) >= Len(p) /\ SubSeq(s, 1, Len(p)) = p

Contains(s, p) == \E i \in 1..(Len(s) - Len(p) + 1) : SubSeq(s, i, i + Len(p) - 1) = p

\* str.replace(old, new): leftmost non-overlapping occurrences
RECURSIVE Replace(_, _, _)
Replace(s, old, new) ==
    IF s = <<>> THEN <<>>
    ELSE IF StartsWith(s, old)
         THEN new \o Replace(SubSeq(s, Len(old) + 1, Len(s)), old, new)
         ELSE <<Head(s)>> \o Replace(Tail(s), old, new)

RECURSIVE LStrip(_)
LStrip(s) == IF s # <<>> /\ IsSpace(Head(s)) THEN LStrip(Tail(s)) ELSE s

RECURSIVE RStrip(_)
RStrip(s) ==
    IF s # <<>> /\ IsSpace(s[Len(s)]) THEN RStrip(SubSeq(s, 1, Len(s) - 1)) ELSE s

\* str.strip()
Strip(s) == RStrip(LStrip(s))

-----------------------------------------------------------------------------
(* extract_clean_text *)

\* End of the match of '<[^<]+?>' anchored at the head of s (0: no match):
\* '<', one or more characters other than '<', as few as possible, then '>'.
TagEnd(s) ==
    IF s = <<>> \/ Head(s) # "<" THEN 0
    ELSE LET J == { j \in 3..Len(s) :
                      s[j] = ">" /\ \A k \in 2..(j - 1) : s[k] # "<" }
         IN  IF J = {} THEN 0 ELSE Min(J)

\* re.sub('<[^<]+?>', '', html_content): one left-to-right pass
RECURSIVE RemoveTags(_)
RemoveTags(s) ==
    IF s = <<>> THEN <<>>
    ELSE IF TagEnd(s) > 0
         THEN RemoveTags(SubSeq(s, TagEnd(s) + 1, Len(s)))
         ELSE <<Head(s)>> \o RemoveTags(Tail(s))

NBSP == <<"&", "n", "b", "s", "p", ";">>
AMP  == <<"&", "a", "m", "p", ";">>
LT   == <<"&", "l", "t", ";">>
GT   == <<"&", "g", "t", ";">>
QUOT == <<"&", "q", "u", "o", "t", ";">>
APOS == <<"&", "#", "3", "9", ";">>

Entities == {NBSP, AMP, LT, GT, QUOT, APOS}

\* the six replace calls, in the source's order
DecodeEntities(s) ==
    Replace(Replace(Replace(Replace(Replace(Replace(s,
        NBSP, <<" ">>), AMP, <<"&">>), LT, <<"<">>), GT, <<">">>),
        QUOT, <<"\"">>), APOS, <<"'">>)

CollapseDropsSpace(s) == SelectSeq(s, LAMBDA c : ~IsSpace(c))

\* re.sub(r'\s+', ' ', text)
RECURSIVE CollapseSpace(_)
CollapseSpace(s) ==
    IF s = <<>> THEN <<>>
    ELSE IF IsSpace(Head(s))
         THEN <<" ">> \o CollapseSpace(LStrip(s))
         ELSE <<Head(s)>> \o CollapseSpace(Tail(s))

extract_clean_text(html) ==
    IF html = <<>> THEN <<>>
    ELSE Strip(CollapseSpace(DecodeEntities(RemoveTags(html))))

\* the pieces html inputs are built from
Fragments ==
    { <<"<">>, <<">">>, <<"a">>, <<"\n">>, <<"<", "b", ">">>,
      <<"&">>, <<"l", "t", ";">> }

FragSeqs == UNION { [1..n -> Fragments] : n \in 0..MaxFrags }

HtmlInputs == { Concat(fs) : fs \in FragSeqs }

-----------------------------------------------------------------------------
(* Configuration *)

\* __init__: each credential is present or absent in the environment
Configs == [gemini_client : BOOLEAN, tawk_api_key : BOOLEAN, tawk_property_id : BOOLEAN]

Idle ==
    /\ html_content = <<>> /\ clean = <<>> /\ reclean = <<>>
    /\ responses = <<>> /\ search_ret = <<>>
    /\ query = <<>> /\ results = <<>> /\ gen_ret = <<>>
    /\ ai = [kind |-> "unused", text |-> <<>>, prompt |-> <<>>]
    /\ posts = <<>> /\ send_ret = FALSE
    /\ body = [kind |-> "none"] /\ calls = <<>> /\ http = 0

-----------------------------------------------------------------------------
(* Specification of extract_clean_text applied once and again *)

InitExtract ==
    /\ Idle
    /\ cfg = [gemini_client |-> FALSE, tawk_api_key |-> FALSE, tawk_property_id |-> FALSE]
    /\ pc = "call"

StartExtract ==
    /\ pc = "call"
    /\ \E h \in HtmlInputs : html_content' = h
    /\ pc' = "extract"
    /\ UNCHANGED << cfg, clean, reclean, responses, search_ret, query, results,
                    ai, gen_ret, posts, send_ret, body, calls, http >>

ExtractOnce ==
    /\ pc = "extract"
    /\ clean' = extract_clean_text(html_content)
    /\ pc' = "again"
    /\ UNCHANGED << cfg, html_content, reclean, responses, search_ret, query,
                    results, ai, gen_ret, posts, send_ret, body, calls, http >>

ExtractAgain ==
    /\ pc = "again"
    /\ reclean' = extract_clean_text(clean)
    /\ pc' = "done"
    /\ UNCHANGED << cfg, html_content, clean, responses, search_ret, query,
                    results, ai, gen_ret, posts, send_ret, body, calls, http >>

NextExtract == StartExtract \/ ExtractOnce \/ ExtractAgain

SpecExtract == InitExtract /\ [][NextExtract]_vars

(* Claims about extract_clean_text *)

NoEntity(s) == \A e \in Entities : ~Contains(s, e)

\* C8 (as stated): extract_clean_text is idempotent on every input without an
\* entity-looking substring, nested or unbalanced angle brackets included.
C8_Idempotent ==
    (pc = "done" /\ NoEntity(html_content)) => reclean = clean

\* C8 (amended): for an input without an entity-looking substring,
\* extract_clean_text applied again changes nothing provided the text left by
\* the single tag-removal pass holds no tag-like span and no entity-looking
\* substring (as for every input without '<').
C8_IdempotentWhenPassLeavesNoTag ==
    ( /\ pc = "done"
      /\ NoEntity(html_content)
      /\ NoEntity(RemoveTags(html_content))
      /\ RemoveTags(RemoveTags(html_content)) = RemoveTags(html_content) )
    => reclean = clean

\* a tag was removed, text and collapsed whitespace remain, and the second
\* application left the result alone
C8_Witness ==
    /\ pc = "done"
    /\ NoEntity(html_content)
    /\ NoEntity(RemoveTags(html_content))
    /\ RemoveTags(RemoveTags(html_content)) = RemoveTags(html_content)
    /\ RemoveTags(html_content) # html_content
    /\ Contains(html_content, <<"\n">>)
    /\ Len(clean) >= 2
    /\ reclean = clean

-----------------------------------------------------------------------------
(* search_confluence *)

\* 'limit': 3 in the query parameters: a response carries at most Limit hits
Limit == 3
\* unique_results[:3]
MaxResults == 3
\* len(search_strategies)
NumStrategies == 3

\* The wiki's pages, by content.id: whether a hit for the page carries a
\* 'title', the title, and body.storage.value.
PageHasTitle(id) == id # 4

PageTitle(id) ==
    CASE id = 1 -> <<"T", "1">>
      [] id = 2 -> <<"T", "2">>
      [] id = 3 -> <<"T", "3">>
      [] OTHER  -> <<"T">>

PageHtml(id) ==
    CASE id = 1 -> <<"<", "p", ">", "a", "\n", "\n", "b", "<", "/", "p", ">">>
      [] id = 2 -> <<>>
      [] id = 3 -> <<"a", "&", "a", "m", "p", ";", "b">>
      [] OTHER  -> <<"<", "b", ">", "d">>

\* One raw hit of results['results'], as strategy k returned it: the page it
\* names (id 0: the hit has no content.id) and the query that found it.
Hit(id, k) == [id |-> id, strategy |-> k]

\* What one session.get (and response.json()) can produce for strategy k:
\* status 200 with hits, another status, or an exception.
OkResponses(k) ==
    UNION { { [kind |-> "ok", hits |-> [i \in 1..n |-> Hit(f[i], k)]] :
                f \in [1..n -> 0..MaxId] } : n \in 0..Limit }

StatusResponse == [kind |-> "status", hits |-> <<>>]

RaiseResponse == [kind |-> "raise", hits |-> <<>>]

\* all_results after the loop over the responses rs
RECURSIVE AllResults(_)
AllResults(rs) ==
    IF rs = <<>> THEN <<>>
    ELSE (IF Head(rs).kind = "ok" THEN Head(rs).hits ELSE <<>>) \o AllResults(Tail(rs))

\* the duplicate-removal loop, from the hits left to visit and seen_ids
RECURSIVE UniqueResults(_, _)
UniqueResults(all, seen_ids) ==
    IF all = <<>> THEN <<>>
    ELSE IF Head(all).id # 0 /\ Head(all).id \notin seen_ids
         THEN <<Head(all)>> \o UniqueResults(Tail(all), seen_ids \cup {Head(all).id})
         ELSE UniqueResults(Tail(all), seen_ids)

Take(s, n) == SubSeq(s, 1, IF Len(s) < n THEN Len(s) ELSE n)

Raised(rs) == \E i \in 1..Len(rs) : rs[i].kind = "raise"

search_confluence_per_query(rs) == Take(UniqueResults(AllResults(rs), {}), MaxResults)

search_confluence_uncapped(rs) ==
    IF Raised(rs) THEN <<>> ELSE UniqueResults(AllResults(rs), {})

\* The whole method: an exception anywhere in the try block reaches the one
\* except clause, which returns [].
search_confluence(rs) ==
    IF Raised(rs) THEN <<>>
    ELSE Take(UniqueResults(AllResults(rs), {}), MaxResults)

-----------------------------------------------------------------------------
(* Specification of search_confluence: the loop's three requests, then the
   return *)

InitSearch ==
    /\ Idle
    /\ cfg = [gemini_client |-> FALSE, tawk_api_key |-> FALSE, tawk_property_id |-> FALSE]
    /\ pc = "get"

GetOk ==
    /\ pc = "get"
    /\ \E r \in OkResponses(Len(responses) + 1) :
         /\ Len(AllResults(responses)) + Len(r.hits) <= MaxTotalHits
         /\ responses' = Append(responses, r)
    /\ pc' = IF Len(responses') = NumStrategies THEN "dedup" ELSE "get"
    /\ UNCHANGED << cfg, html_content, clean, reclean, search_ret, query, results,
                    ai, gen_ret, posts, send_ret, body, calls, http >>

GetStatus ==
    /\ pc = "get"
    /\ responses' = Append(responses, StatusResponse)
    /\ pc' = IF Len(responses') = NumStrategies THEN "dedup" ELSE "get"
    /\ UNCHANGED << cfg, html_content, clean, reclean, search_ret, query, results,
                    ai, gen_ret, posts, send_ret, body, calls, http >>

GetRaise ==
    /\ pc = "get"
    /\ responses' = Append(responses, RaiseResponse)
    /\ pc' = "except"
    /\ UNCHANGED << cfg, html_content, clean, reclean, search_ret, query, results,
                    ai, gen_ret, posts, send_ret, body, calls, http >>

SearchReturn ==
    /\ pc \in {"dedup", "except"}
    /\ search_ret' = search_confluence(responses)
    /\ pc' = "done"
    /\ UNCHANGED << cfg, html_content, clean, reclean, responses, query, results,
                    ai, gen_ret, posts, send_ret, body, calls, http >>

NextSearch == GetOk \/ GetStatus \/ GetRaise \/ SearchReturn

SpecSearch == InitSearch /\ [][NextSearch]_vars

(* Claims about search_confluence *)

Ids(hs) == [i \in 1..Len(hs) |-> hs[i].id]

\* positions of all_results holding the first occurrence of an identifier
FirstSeen(all) ==
    { p \in 1..Len(all) :
        all[p].id # 0 /\ \A q \in 1..(p - 1) : all[q].id # all[p].id }

\* ret is the hits at the first three first-occurrence positions, in order
IsFirstDistinct(ret, all) ==
    /\ Len(ret) = (IF Cardinality(FirstSeen(all)) < 3 THEN Cardinality(FirstSeen(all)) ELSE 3)
    /\ \A k \in 1..Len(ret) :
         \E p \in FirstSeen(all) :
            /\ Cardinality({ q \in FirstSeen(all) : q < p }) = k - 1
            /\ ret[k] = all[p]

\* C1: when the three queries return, the result is at most 3 hits with
\* pairwise distinct identifiers: the first three distinct identifiers of the
\* concatenated hits, in first-seen order, each its first occurrence.
C1_FirstThreeDistinct ==
    (pc = "done" /\ ~Raised(responses)) =>
        /\ Len(search_ret) <= 3
        /\ \A i, j \in 1..Len(search_ret) :
             i # j => search_ret[i].id # search_ret[j].id
        /\ IsFirstDistinct(search_ret, AllResults(responses))

\* hits with ids [1,2,1,3] over the three queries yield [1,2,3], each the
\* occurrence of the earliest query
C1_Witness ==
    /\ pc = "done"
    /\ Len(responses) = 3
    /\ Ids(AllResults(responses)) = <<1, 2, 1, 3>>
    /\ Ids(search_ret) = <<1, 2, 3>>
    /\ responses[1].hits # <<>> /\ responses[2].hits # <<>>

\* C2 (as stated): a failure of one query only removes that query's hits; the
\* hits of the queries that succeeded are merged and returned.
C2_FailureSwallowedPerQuery ==
    pc = "done" => IsFirstDistinct(search_ret, AllResults(responses))

\* C2 (amended): a query answered with a status other than 200 contributes no
\* hit and the other queries' hits are merged and returned; an exception in
\* any one query ends the search with the empty list, whatever hits earlier
\* queries returned.
C2_StatusSkippedExceptionEmpties ==
    pc = "done" =>
        /\ Raised(responses) => search_ret = <<>>
        /\ ~Raised(responses) => IsFirstDistinct(search_ret, AllResults(responses))

\* the first query returned two hits, the second raised: the empty list
C2_Witness ==
    /\ pc = "done"
    /\ Len(responses) = 2
    /\ responses[1].kind = "ok"
    /\ Ids(responses[1].hits) = <<1, 2>>
    /\ responses[2].kind = "raise"
    /\ search_ret = <<>>

-----------------------------------------------------------------------------
(* generate_response and format_basic_response *)

\* clean_text[:200] in format_basic_response
BasicPreviewLen == 200
\* clean_text[:600] in generate_response
ContextPreviewLen == 600
\* confluence_results[:2]
ContextResults == 2

Apology ==
    <<"I couldn't find information about that topic in the knowledge base. Could you try rephrasing your question?">>

\* result.get('title', 'Untitled')
TitleOf(r) == IF PageHasTitle(r.id) THEN PageTitle(r.id) ELSE <<"Untitled">>

\* result.get('content', {}).get('body', {}).get('storage', {}).get('value', '')
HtmlOf(r) == PageHtml(r.id)

\* clean_text[:n] + "..." if len(clean_text) > n else clean_text
Preview(clean_text, n) ==
    IF Len(clean_text) > n THEN SubSeq(clean_text, 1, n) \o <<"...">> ELSE clean_text

\* sep.join(parts)
RECURSIVE Join(_, _)
Join(parts, sep) ==
    IF parts = <<>> THEN <<>>
    ELSE IF Len(parts) = 1 THEN Head(parts)
    ELSE Head(parts) \o sep \o Join(Tail(parts), sep)

\* the lines format_basic_response appends for the i-th result
BasicItem(i, r) ==
    LET preview == Preview(extract_clean_text(HtmlOf(r)), BasicPreviewLen)
    IN  << <<ToString(i), ". **">> \o TitleOf(r) \o <<"**">> >>
        \o (IF preview # <<>> THEN << <<"   ">> \o preview >> ELSE <<>>)
        \o << <<>> >>

format_basic_response(q, rs) ==
    IF rs = <<>>
    THEN <<"I couldn't find information about '">> \o q \o <<"' in the knowledge base.">>
    ELSE Join(
           << <<"I found ", ToString(Len(rs)), " result(s) about '">> \o q \o <<"':\n">> >>
           \o Concat([i \in 1..Len(rs) |-> BasicItem(i, rs[i])]),
           <<"\n">>)

\* context_parts: of the first two results, those whose clean text is not empty
ContextParts(rs) ==
    LET kept == SelectSeq(Take(rs, ContextResults),
                          LAMBDA r : extract_clean_text(HtmlOf(r)) # <<>>)
    IN  [i \in 1..Len(kept) |->
           <<"**">> \o TitleOf(kept[i]) \o <<"**", "\n">>
           \o Preview(extract_clean_text(HtmlOf(kept[i])), ContextPreviewLen)]

\* the prompt handed to generate_content
Prompt(q, rs) ==
    <<"You are a helpful AI assistant answering questions based on documentation.\n\nUser's question: \"">>
    \o q
    \o <<"\"\n\nRelevant information from the knowledge base:\n">>
    \o Join(ContextParts(rs), <<"\n", "\n">>)
    \o <<"\n\nPlease provide a clear, helpful response based on this information. Be conversational and friendly, like a knowledgeable colleague helping out. If the information doesn't fully answer the question, say so and suggest what additional information might be needed.\n\nKeep your response concise but informative.">>

\* What the one generate_content call can do: raise, or return a response
\* whose text is empty or not.
AiOutcomes ==
    { [kind |-> "raise", text |-> <<>>],
      [kind |-> "text",  text |-> <<>>],
      [kind |-> "text",  text |-> <<" ">>],
      [kind |-> "text",  text |-> <<"A", "I">>] }

\* no generate_content call was made
NoAiCall == [kind |-> "unused", text |-> <<>>, prompt |-> <<>>]

\* the call made for (q, rs) and what came of it
AiCall(q, rs, outcome) ==
    [kind |-> outcome.kind, text |-> outcome.text, prompt |-> Prompt(q, rs)]

generate_response_error_apologises(q, rs, gemini_client, outcome) ==
    IF rs = <<>> THEN Apology
    ELSE IF gemini_client /\ outcome.kind = "raise" THEN Apology
    ELSE IF gemini_client /\ outcome.kind = "text" /\ outcome.text # <<>> THEN outcome.text
    ELSE format_basic_response(q, rs)

\* The whole method, given whether gemini_client is set and what the
\* generate_content call does when it is made.
generate_response(q, rs, gemini_client, outcome) ==
    IF rs = <<>> THEN Apology
    ELSE IF gemini_client /\ outcome.kind = "text" /\ outcome.text # <<>>
         THEN outcome.text
         ELSE format_basic_response(q, rs)

\* whether generate_response reaches the generate_content call
CallsAi(rs, gemini_client) == rs # <<>> /\ gemini_client

Queries == { <<"x">>, <<"y", " ", "z">> }

\* result lists as search_confluence returns them: at most MaxResults hits of
\* distinct pages
ResultLists ==
    { rs \in UNION { [1..n -> { Hit(id, 1) : id \in 1..MaxId }] : n \in 0..MaxResults } :
        \A i, j \in 1..Len(rs) : i # j => rs[i].id # rs[j].id }

-----------------------------------------------------------------------------
(* Specification of generate_response *)

InitGenerate ==
    /\ Idle
    /\ cfg \in { c \in Configs : ~c.tawk_api_key /\ ~c.tawk_property_id }
    /\ pc = "call"

StartGenerate ==
    /\ pc = "call"
    /\ \E q \in Queries, rs \in ResultLists :
         /\ query' = q
         /\ results' = rs
    /\ pc' = "generate"
    /\ UNCHANGED << cfg, html_content, clean, reclean, responses, search_ret,
                    ai, gen_ret, posts, send_ret, body, calls, http >>

GenerateWithAi ==
    /\ pc = "generate"
    /\ CallsAi(results, cfg.gemini_client)
    /\ \E outcome \in AiOutcomes :
         /\ ai' = AiCall(query, results, outcome)
         /\ gen_ret' = generate_response(query, results, cfg.gemini_client, outcome)
    /\ pc' = "done"
    /\ UNCHANGED << cfg, html_content, clean, reclean, responses, search_ret,
                    query, results, posts, send_ret, body, calls, http >>

GenerateWithoutAi ==
    /\ pc = "generate"
    /\ ~CallsAi(results, cfg.gemini_client)
    /\ ai' = NoAiCall
    /\ gen_ret' = generate_response(query, results, cfg.gemini_client, NoAiCall)
    /\ pc' = "done"
    /\ UNCHANGED << cfg, html_content, clean, reclean, responses, search_ret,
                    query, results, posts, send_ret, body, calls, http >>

NextGenerate == StartGenerate \/ GenerateWithAi \/ GenerateWithoutAi

SpecGenerate == InitGenerate /\ [][NextGenerate]_vars

(* Claims about generate_response *)

\* C3: with a non-empty result list and the AI backend configured, a
\* completion call that raises or returns empty text yields exactly
\* format_basic_response(query, results); non-empty text is returned verbatim.
C3_AiFailureFallsBack ==
    (pc = "done" /\ results # <<>> /\ cfg.gemini_client) =>
        /\ ai.kind \in {"raise", "text"}
        /\ ai.prompt = Prompt(query, results)
        /\ (ai.kind = "raise" \/ ai.text = <<>>)
              => gen_ret = format_basic_response(query, results)
        /\ (ai.kind = "text" /\ ai.text # <<>>) => gen_ret = ai.text

\* the completion call raised for a three-result list, one of them without
\* preview, and the numbered fallback list came back
C3_Witness ==
    /\ pc = "done"
    /\ cfg.gemini_client
    /\ Len(results) = 3
    /\ \E i \in 1..3 : results[i].id = 2
    /\ ai.kind = "raise"
    /\ gen_ret = format_basic_response(query, results)
    /\ gen_ret # Apology

-----------------------------------------------------------------------------
(* send_tawk_message *)

ChatIds == {"abc", "xyz"}

Welcome ==
    <<"Hi! I'm your AI assistant. I can help you find information from our knowledge base. Ask me anything!">>

\* What the one requests.post can do: raise, or complete with a status.
PostOutcomes ==
    { [kind |-> "raise", status |-> 0] }
    \cup { [kind |-> "status", status |-> c] : c \in {200, 201, 204, 400, 500} }

\* not self.tawk_api_key or not self.tawk_property_id
TawkUnconfigured(c) == ~c.tawk_api_key \/ ~c.tawk_property_id

PostSucceededOnly200(outcome) == outcome.kind = "status" /\ outcome.status = 200

\* response.status_code in [200, 201]; an exception reaches the except clause
PostSucceeded(outcome) == outcome.kind = "status" /\ outcome.status \in {200, 201}

\* the POST issued for (chat_id, message) and what came of it
Post(chat_id, message, outcome) ==
    [chat |-> chat_id, message |-> message, type |-> "msg", outcome |-> outcome]

-----------------------------------------------------------------------------
(* Specification of send_tawk_message *)

InitSend ==
    /\ Idle
    /\ cfg \in Configs
    /\ pc = "call"

StartSend ==
    /\ pc = "call"
    /\ \E c \in ChatIds, m \in {Welcome, Apology, <<"A", "I">>} :
         calls' = <<[fn |-> "send_tawk_message", chat |-> c, text |-> m, results |-> <<>>]>>
    /\ pc' = "send"
    /\ UNCHANGED << cfg, html_content, clean, reclean, responses, search_ret, query,
                    results, ai, gen_ret, posts, send_ret, body, http >>

SendUnconfigured ==
    /\ pc = "send"
    /\ TawkUnconfigured(cfg)
    /\ send_ret' = FALSE
    /\ pc' = "done"
    /\ UNCHANGED << cfg, html_content, clean, reclean, responses, search_ret, query,
                    results, ai, gen_ret, posts, body, calls, http >>

SendPost ==
    /\ pc = "send"
    /\ ~TawkUnconfigured(cfg)
    /\ \E outcome \in PostOutcomes :
         /\ posts' = Append(posts, Post(calls[1].chat, calls[1].text, outcome))
         /\ send_ret' = PostSucceeded(outcome)
    /\ pc' = "done"
    /\ UNCHANGED << cfg, html_content, clean, reclean, responses, search_ret, query,
                    results, ai, gen_ret, body, calls, http >>

NextSend == StartSend \/ SendUnconfigured \/ SendPost

SpecSend == InitSend /\ [][NextSend]_vars

(* Claims about send_tawk_message *)

\* C7: without the API key or the property identifier send_tawk_message
\* returns false and makes no network call; otherwise it issues exactly one
\* POST and returns true exactly when that POST completes with status 200 or
\* 201 (false on any other status and on an exception).
C7_SendResult ==
    pc = "done" =>
        IF ~cfg.tawk_api_key \/ ~cfg.tawk_property_id
        THEN posts = <<>> /\ send_ret = FALSE
        ELSE /\ Len(posts) = 1
             /\ posts[1].chat = calls[1].chat
             /\ posts[1].message = calls[1].text
             /\ send_ret = ( /\ posts[1].outcome.kind = "status"
                             /\ posts[1].outcome.status \in {200, 201} )

\* configured, one POST answered 201: true
C7_Witness ==
    /\ pc = "done"
    /\ cfg.tawk_api_key /\ cfg.tawk_property_id
    /\ Len(posts) = 1
    /\ posts[1].outcome.status = 201
    /\ send_ret = TRUE

-----------------------------------------------------------------------------
(* tawk_webhook *)

\* message texts a payload may carry
Texts == { <<>>, <<" ">>, <<"x">>, <<" ", "y", "\n">> }

\* one entry of chat.messages: sender.t ('v': visitor, 'a': agent) and msg
TranscriptMessages == [t : {"v", "a"}, msg : Texts]

Transcripts == UNION { [1..n -> TranscriptMessages] : n \in 0..MaxMsgs }

Payload(kind, event, chatId, has_message, text, messages) ==
    [ kind |-> kind, event |-> event, chatId |-> chatId,
      has_message |-> has_message, text |-> text, messages |-> messages ]

\* Request bodies: bytes that are not JSON, JSON that is no object (null, a
\* list), and JSON objects by event (event "": no 'event' field).
Bodies ==
    { Payload("malformed", "", "", FALSE, <<>>, <<>>),
      Payload("nonobject", "", "", FALSE, <<>>, <<>>) }
    \cup { Payload("object", "chat:start", c, TRUE, t, <<>>) : c \in ChatIds, t \in Texts }
    \cup { Payload("object", "chat:start", c, FALSE, <<>>, <<>>) : c \in ChatIds }
    \cup { Payload("object", "chat:transcript_created", c, FALSE, <<>>, ms) :
             c \in ChatIds, ms \in Transcripts }
    \cup { Payload("object", e, c, FALSE, <<>>, <<>>) :
             e \in {"ticket:create", "chat:end", ""}, c \in ChatIds }

\* request.get_json(force=True): Flask answers a body it cannot parse by
\* raising werkzeug's BadRequest (an HTTPException), not json.JSONDecodeError
GetJsonError(b) == IF b.kind = "malformed" THEN "BadRequest" ELSE "none"

\* data.get('event') on a value that is no dict
EventError(b) == IF b.kind = "nonobject" THEN "AttributeError" ELSE "none"

\* the route's except clauses, in order: json.JSONDecodeError, then Exception
ErrorStatus(exc) == IF exc = "JSONDecodeError" THEN 400 ELSE 500

RouteUnknownAsChatStart(b) ==
    CASE b.event = "chat:transcript_created" -> "transcript"
      [] b.event = "ticket:create"           -> "ticket"
      [] OTHER                               -> "chat_start"

\* the if / elif chain on event
Route(b) ==
    CASE b.event = "chat:start"              -> "chat_start"
      [] b.event = "chat:transcript_created" -> "transcript"
      [] b.event = "ticket:create"           -> "ticket"
      [] OTHER                               -> "unhandled"

MessageTextUntrimmed(b) == IF b.has_message THEN b.text ELSE <<>>

\* data.get('message', {}).get('text', '').strip()
MessageText(b) == Strip(IF b.has_message THEN b.text ELSE <<>>)

RECURSIVE FirstVisitorMessage(_)
FirstVisitorMessage(messages) ==
    IF messages = <<>> THEN <<>>
    ELSE IF Head(messages).t = "v"
         THEN Strip(Head(messages).msg)
         ELSE FirstVisitorMessage(Tail(messages))

\* the loop over reversed(messages), stopped at the first visitor message
\* (<<>>: None or '', which the handler treats alike)
RECURSIVE LastVisitorMessage(_)
LastVisitorMessage(messages) ==
    IF messages = <<>> THEN <<>>
    ELSE IF messages[Len(messages)].t = "v"
         THEN Strip(messages[Len(messages)].msg)
         ELSE LastVisitorMessage(SubSeq(messages, 1, Len(messages) - 1))

\* where the handler goes once the payload is read, and with which query
Dispatch(b) ==
    CASE Route(b) = "chat_start" ->
           IF MessageText(b) # <<>>
           THEN [next |-> "search", query |-> MessageText(b)]
           ELSE [next |-> "welcome", query |-> <<>>]
      [] Route(b) = "transcript" ->
           IF LastVisitorMessage(b.messages) # <<>>
           THEN [next |-> "search", query |-> LastVisitorMessage(b.messages)]
           ELSE [next |-> "respond", query |-> <<>>]
      [] OTHER -> [next |-> "respond", query |-> <<>>]

SearchCallPropagates(rs) ==
    IF Raised(rs) THEN [exc |-> "ConnectionError", ret |-> <<>>]
    ELSE [exc |-> "none", ret |-> search_confluence(rs)]

\* bot.search_confluence(...) as the handler sees it: the method's own except
\* clause lets no exception out
SearchCall(rs) == [exc |-> "none", ret |-> search_confluence(rs)]

\* What the wiki answers to the three queries of one webhook: per query an
\* exception (which ends the loop), an error status, or page 1.
ResponseRuns ==
    LET kinds == {"raise", "status", "ok"}
        runs  == { ks \in UNION { [1..n -> kinds] : n \in 1..NumStrategies } :
                     /\ \A i \in 1..(Len(ks) - 1) : ks[i] # "raise"
                     /\ Len(ks) = NumStrategies \/ ks[Len(ks)] = "raise" }
    IN  { [k \in 1..Len(ks) |->
             CASE ks[k] = "raise"  -> RaiseResponse
               [] ks[k] = "status" -> StatusResponse
               [] OTHER            -> [kind |-> "ok", hits |-> <<Hit(1, k)>>]] :
          ks \in runs }

Call(fn, chat, text, rs) == [fn |-> fn, chat |-> chat, text |-> text, results |-> rs]

-----------------------------------------------------------------------------
(* Specification of the /tawk-webhook route: one request, from its arrival to
   the HTTP answer *)

InitWebhook ==
    /\ Idle
    /\ cfg \in Configs
    /\ pc = "listen"

\* a POST arrives: the body is parsed and the event dispatched
ReceiveWebhook ==
    /\ pc = "listen"
    /\ \E b \in Bodies :
         /\ body' = b
         /\ IF GetJsonError(b) # "none"
            THEN http' = ErrorStatus(GetJsonError(b)) /\ pc' = "done" /\ query' = query
            ELSE IF EventError(b) # "none"
            THEN http' = ErrorStatus(EventError(b)) /\ pc' = "done" /\ query' = query
            ELSE http' = http /\ pc' = Dispatch(b).next /\ query' = Dispatch(b).query
    /\ UNCHANGED << cfg, html_content, clean, reclean, responses, search_ret,
                    results, ai, gen_ret, posts, send_ret, calls >>

\* confluence_results = bot.search_confluence(text)
WebhookSearch ==
    /\ pc = "search"
    /\ \E rs \in ResponseRuns :
         /\ responses' = rs
         /\ calls' = Append(calls, Call("search_confluence", "", query, <<>>))
         /\ IF SearchCall(rs).exc # "none"
            THEN /\ http' = ErrorStatus(SearchCall(rs).exc)
                 /\ pc' = "done"
                 /\ UNCHANGED << search_ret, results >>
            ELSE /\ search_ret' = SearchCall(rs).ret
                 /\ results' = SearchCall(rs).ret
                 /\ pc' = "generate"
                 /\ http' = http
    /\ UNCHANGED << cfg, html_content, clean, reclean, query, ai, gen_ret,
                    posts, send_ret, body >>

\* response = bot.generate_response(text, confluence_results)
WebhookGenerate ==
    /\ pc = "generate"
    /\ \E outcome \in (IF CallsAi(results, cfg.gemini_client) THEN AiOutcomes ELSE {NoAiCall}) :
         /\ ai' = IF CallsAi(results, cfg.gemini_client)
                  THEN AiCall(query, results, outcome) ELSE NoAiCall
         /\ gen_ret' = generate_response(query, results, cfg.gemini_client, outcome)
    /\ calls' = Append(calls, Call("generate_response", "", query, results))
    /\ pc' = "send"
    /\ UNCHANGED << cfg, html_content, clean, reclean, responses, search_ret,
                    query, results, posts, send_ret, body, http >>

\* bot.send_tawk_message(chat_id, response), or the welcome message
WebhookSend ==
    /\ pc \in {"send", "welcome"}
    /\ LET message == IF pc = "welcome" THEN Welcome ELSE gen_ret
       IN  /\ calls' = Append(calls, Call("send_tawk_message", body.chatId, message, <<>>))
           /\ IF TawkUnconfigured(cfg)
              THEN send_ret' = FALSE /\ posts' = posts
              ELSE \E outcome \in PostOutcomes :
                     /\ posts' = Append(posts, Post(body.chatId, message, outcome))
                     /\ send_ret' = PostSucceeded(outcome)
    /\ pc' = "respond"
    /\ UNCHANGED << cfg, html_content, clean, reclean, responses, search_ret,
                    query, results, ai, gen_ret, body, http >>

\* return jsonify({'status': 'success', 'received': True}), 200
WebhookRespond ==
    /\ pc = "respond"
    /\ http' = 200
    /\ pc' = "done"
    /\ UNCHANGED << cfg, html_content, clean, reclean, responses, search_ret,
                    query, results, ai, gen_ret, posts, send_ret, body, calls >>

NextWebhook ==
    ReceiveWebhook \/ WebhookSearch \/ WebhookGenerate \/ WebhookSend \/ WebhookRespond

SpecWebhook == InitWebhook /\ [][NextWebhook]_vars

(* Claims about the /tawk-webhook route *)

Max(S) == CHOOSE x \in S : \A y \in S : x >= y

\* the three calls of one search -> generate -> notify run for query q, chat c
Pipeline(q, c) ==
    << Call("search_confluence", "", q, <<>>),
       Call("generate_response", "", q, search_ret),
       Call("send_tawk_message", c, gen_ret, <<>>) >>

\* message.text of a chat:start payload ('' when absent)
StartText(b) == IF b.has_message THEN b.text ELSE <<>>

\* positions of the visitor-flagged entries of a transcript
VisitorPositions(b) == { i \in 1..Len(b.messages) : b.messages[i].t = "v" }

\* the payload carries a visitor message that is not empty once trimmed
CarriesVisitorMessage(b) ==
    /\ b.kind = "object"
    /\ \/ b.event = "chat:start" /\ Strip(StartText(b)) # <<>>
       \/ /\ b.event = "chat:transcript_created"
          /\ VisitorPositions(b) # {}
          /\ Strip(b.messages[Max(VisitorPositions(b))].msg) # <<>>

\* C4: a body that is not parseable JSON is answered with HTTP 400, not 500.
C4_MalformedJsonIs400 ==
    (pc = "done" /\ body.kind = "malformed") => http = 400

\* C5: on chat:start for chat c, a message text that is not empty after
\* trimming makes the handler call search, then generate on the search
\* results, then the notifier once for c with the generated reply; an empty
\* or whitespace-only text makes it call only the notifier, once, for c, with
\* the welcome text.
C5_ChatStart ==
    (pc = "done" /\ body.kind = "object" /\ body.event = "chat:start") =>
        IF Strip(StartText(body)) # <<>>
        THEN calls = Pipeline(Strip(StartText(body)), body.chatId)
        ELSE calls = <<Call("send_tawk_message", body.chatId, Welcome, <<>>)>>

\* a chat:start whose text has surrounding whitespace ran the three calls on
\* the trimmed text
C5_Witness ==
    /\ pc = "done"
    /\ body.event = "chat:start"
    /\ body.text = <<" ", "y", "\n">>
    /\ Len(calls) = 3
    /\ calls[1].text = <<"y">>
    /\ calls[3].chat = "abc"
    /\ http = 200

\* C6: on chat:transcript_created the pipeline runs, on the trimmed text of
\* the most recent visitor-flagged message, exactly when there is such a
\* message and its trimmed text is not empty; otherwise nothing is called and
\* nothing is posted.
C6_Transcript ==
    (pc = "done" /\ body.kind = "object" /\ body.event = "chat:transcript_created") =>
        IF /\ VisitorPositions(body) # {}
           /\ Strip(body.messages[Max(VisitorPositions(body))].msg) # <<>>
        THEN calls = Pipeline(Strip(body.messages[Max(VisitorPositions(body))].msg),
                              body.chatId)
        ELSE calls = <<>> /\ posts = <<>>

\* two visitor messages with different texts: the later one was the query
C6_Witness ==
    /\ pc = "done"
    /\ body.event = "chat:transcript_created"
    /\ Len(body.messages) = 2
    /\ body.messages[1] = [t |-> "v", msg |-> <<"x">>]
    /\ body.messages[2] = [t |-> "v", msg |-> <<" ", "y", "\n">>]
    /\ Len(calls) = 3
    /\ calls[1].text = <<"y">>

\* C9: for a chat:start or chat:transcript_created event carrying a non-empty
\* visitor message, whatever the search queries, the completion call and the
\* POST do, the handler goes from one pipeline stage to the next without
\* answering early, and it ends with the three pipeline calls, the notifier called once with the apology (no
\* result), the AI text or the deterministic fallback, at most one POST, and
\* HTTP 200.
C9_PipelineNeverAborted ==
    (body.kind = "object" /\ CarriesVisitorMessage(body)) =>
        /\ pc # "done" => pc \in {"search", "generate", "send"} \/ (pc = "respond" /\ Len(calls) = 3)
        /\ pc # "done" => http = 0
        /\ pc = "done" =>
             /\ http = 200
             /\ Len(calls) = 3
             /\ Cardinality({ i \in 1..Len(calls) : calls[i].fn = "send_tawk_message" }) = 1
             /\ calls[3].fn = "send_tawk_message"
             /\ calls[3].chat = body.chatId
             /\ calls[3].text =
                  (IF search_ret = <<>> THEN Apology
                   ELSE IF ai.kind = "text" /\ ai.text # <<>> THEN ai.text
                   ELSE format_basic_response(query, search_ret))
             /\ Len(posts) <= 1

\* a query raised, the apology went out, the POST failed, and the answer was
\* still 200
C9_Witness ==
    /\ pc = "done"
    /\ CarriesVisitorMessage(body)
    /\ Raised(responses)
    /\ Len(calls) = 3
    /\ calls[3].text = Apology
    /\ Len(posts) = 1
    /\ posts[1].outcome.kind = "raise"
    /\ send_ret = FALSE
    /\ http = 200

\* C10: ticket:create, any other event and a payload without event field make
\* no search, generate or notifier call and are answered with HTTP 200.
C10_OtherEventsAcknowledged ==
    ( /\ pc = "done"
      /\ body.kind = "object"
      /\ body.event \notin {"chat:start", "chat:transcript_created"} )
    => calls = <<>> /\ posts = <<>> /\ http = 200

\* a payload without event field was acknowledged
C10_Witness ==
    /\ pc = "done"
    /\ body.kind = "object"
    /\ body.event = ""
    /\ calls = <<>>
    /\ http = 200

====
